---------------------------- MODULE Spec2Model ----------------------------
(***************************************************************************)
(* DBIIReplay: capture-device discovery (client/display/capture.py), the   *)
(* device scorer, the selection orchestrator and the frame acquisition     *)
(* thread (client/menu/window.py).                                         *)
(*                                                                         *)
(* Python str values are TLA+ strings over printable ASCII plus "\n";      *)
(* Python lists are sequences; Python None is the value None below.        *)
(***************************************************************************)
EXTENDS Integers, Sequences, FiniteSets, TLC

VARIABLES
    fn,        \* pure-function harness: which function is applied
    arg,       \* its input
    res,       \* its result (None before the call)
    called,    \* whether the function has been applied
    file,      \* config.json on disk
    before,    \* config.json as the last call found it
    ret,       \* what the last ensure_default_capture_device call returned
    escaped,   \* the exception that escaped the last call, or None
    ran,       \* the enumeration strategies the last call invoked, in order
    chose,     \* whether the last call invoked choose_best_device
    saves,     \* how often the last call invoked save_config
    best,      \* the local `best` of the last call (None if not reached)
    dryRun,    \* the dry_run argument of the last call
    written,   \* device name the most recent successful save pinned, or None
    calls,     \* number of calls made so far
    status,    \* <<exit status>> if the last call was a run of the script, else <<>>
    cv2,       \* window.py: whether the cv2 module could be imported
    _running,  \* VideoCaptureThread._running
    _cap,      \* VideoCaptureThread._cap: None or the handle it refers to
    pc,        \* where run() is
    hpc,       \* where the host (GUI thread) is with start() and stop()
    opens,     \* how each cv2.VideoCapture(...) call went, None before it
    live,      \* per handle: isOpened()
    releases,  \* per handle: number of release() calls made on it
    device,    \* what the device will answer to the coming reads
    lastRead,  \* outcome of the last read(), None before the first
    retries,   \* failed or empty reads so far (counted up to MaxRetries)
    frames,    \* successful reads so far
    emitted,   \* frameReady emissions so far
    raised,    \* whether an exception is leaving run()
    stopAt,    \* where run() was when stop() cleared the flag, None before
    sinceStop, \* frameReady emissions made after the flag was cleared
    raced,     \* stop() released the capture while run() was at its read()
    frame,     \* number of the frame the loop body holds, 0 for none
    pending,   \* emitted frames queued for the GUI thread's slot
    delivered  \* frames _on_frame has been called with, in order

pureVars == <<fn, arg, res, called>>

discVars == <<file, before, ret, escaped, ran, chose, saves, best, dryRun, written,
              calls, status>>

\* everything but the capture thread
otherVars == <<pureVars, discVars>>

runVars == <<cv2, _running, _cap, pc, hpc, opens, live, releases, device,
             lastRead, retries, frames, emitted, raised,
             stopAt, sinceStop, raced, frame, pending, delivered>>

vars == <<fn, arg, res, called,
          file, before, ret, escaped, ran, chose, saves, best, dryRun, written,
          calls, status,
          cv2, _running, _cap, pc, hpc, opens, live, releases, device,
          lastRead, retries, frames, emitted, raised,
          stopAt, sinceStop, raced, frame, pending, delivered>>

(***************************************************************************)
(* Python values                                                           *)
(***************************************************************************)
None == "<None>"

\* bool(v) for the values the program tests: None and '' are falsy
Truthy(v) == v /= None /\ v /= ""

(***************************************************************************)
(* str helpers                                                             *)
(***************************************************************************)
Char(s, i) == SubSeq(s, i, i)

\* printable ASCII in code-point order: 32 (space) .. 95 (_) and 97 (a) .. 126 (~)
\* (96, the backquote, cannot be written in a TLA+ string and is left out)
AsciiLow == " !\"#$%&'()*+,-./0123456789:;<=>?@ABCDEFGHIJKLMNOPQRSTUVWXYZ[\\]^_"
AsciiHigh == "abcdefghijklmnopqrstuvwxyz{|}~"

\* ord(c); "\n" is 10, "\t" is 9
Ord(c) ==
    IF c = "\n" THEN 10
    ELSE IF c = "\t" THEN 9
    ELSE IF \E i \in 1..Len(AsciiLow) : Char(AsciiLow, i) = c
    THEN 31 + (CHOOSE i \in 1..Len(AsciiLow) : Char(AsciiLow, i) = c)
    ELSE 96 + (CHOOSE i \in 1..Len(AsciiHigh) : Char(AsciiHigh, i) = c)

\* the lower-case form of each upper-case ASCII letter
LowerTable ==
    [ A |-> "a", B |-> "b", C |-> "c", D |-> "d", E |-> "e", F |->
      "f", G |-> "g", H |-> "h", I |-> "i", J |-> "j", K |-> "k", L
      |-> "l", M |-> "m", N |-> "n", O |-> "o", P |-> "p", Q |-> "q",
      R |-> "r", S |-> "s", T |-> "t", U |-> "u", V |-> "v", W |->
      "w", X |-> "x", Y |-> "y", Z |-> "z" ]

LowerChar(c) == IF c \in DOMAIN LowerTable THEN LowerTable[c] ELSE c

\* str.lower(): every character lower-cased (halving keeps the evaluation
\* depth logarithmic in the length)
RECURSIVE Lower(_)
Lower(s) ==
    IF s = "" THEN ""
    ELSE IF Len(s) = 1 THEN LowerChar(s)
    ELSE LET h == Len(s) \div 2
         IN  Lower(SubSeq(s, 1, h)) \o Lower(SubSeq(s, h + 1, Len(s)))

\* k in n  (substring test)
Contains(k, n) ==
    \E i \in 1..(Len(n) - Len(k) + 1) : SubSeq(n, i, i + Len(k) - 1) = k

\* a < b on str: lexicographic by code point
RECURSIVE StrLessFrom(_, _, _)
StrLessFrom(a, b, i) ==
    IF i > Len(b) THEN FALSE
    ELSE IF i > Len(a) THEN TRUE
    ELSE IF Char(a, i) = Char(b, i) THEN StrLessFrom(a, b, i + 1)
    ELSE Ord(Char(a, i)) < Ord(Char(b, i))

StrLess(a, b) == StrLessFrom(a, b, 1)

(***************************************************************************)
(* Device Scorer: score_device_name, choose_best_device                    *)
(***************************************************************************)
\* the local list `weights` of score_device_name
weights ==
    << <<"elgato", 50>>, <<"blackmagic", 50>>, <<"avermedia", 45>>,
       <<"hauppauge", 45>>, <<"capture", 30>>, <<"video", 40>>,
       <<"hdmi", 25>>, <<"usb", 10>>, <<"webcam", 12>>, <<"camera", 5>>,
       <<"cam", 4>> >>

LenBonusThreshold == 20
LenBonus == 2

\* the for loop over weights: score after the first i entries
RECURSIVE ScoreLoop(_, _)
ScoreLoop(n, i) ==
    IF i = 0 THEN 0
    ELSE ScoreLoop(n, i - 1)
         + (IF Contains(weights[i][1], n) THEN weights[i][2] ELSE 0)

\* first-match-only variant of the loop (a break after the first hit)
RECURSIVE ScoreFirstMatch(_, _)
ScoreFirstMatch(n, i) ==
    IF i > Len(weights) THEN 0
    ELSE IF Contains(weights[i][1], n) THEN weights[i][2]
    ELSE ScoreFirstMatch(n, i + 1)

score_device_name_firstmatch(name) ==
    LET n == Lower(name)
    IN  ScoreFirstMatch(n, 1) + (IF Len(n) > LenBonusThreshold THEN LenBonus ELSE 0)

score_device_name(name) ==
    LET n == Lower(name)
    IN  ScoreLoop(n, Len(weights))
        + (IF Len(n) > LenBonusThreshold THEN LenBonus ELSE 0)

\* (score, name) tuple order: a < b
TupleLess(a, b) ==
    \/ a[1] < b[1]
    \/ a[1] = b[1] /\ StrLess(a[2], b[2])

\* sorted(..., reverse=True): insert x into a descending list, after the
\* elements not smaller than it (stable)
RECURSIVE InsertDesc(_, _)
InsertDesc(x, s) ==
    IF s = <<>> THEN <<x>>
    ELSE IF TupleLess(Head(s), x) THEN <<x>> \o s
    ELSE <<Head(s)>> \o InsertDesc(x, Tail(s))

\* plain sorted(...): ascending (reverse=True forgotten)
RECURSIVE InsertAsc(_, _)
InsertAsc(x, s) ==
    IF s = <<>> THEN <<x>>
    ELSE IF TupleLess(x, Head(s)) THEN <<x>> \o s
    ELSE <<Head(s)>> \o InsertAsc(x, Tail(s))

RECURSIVE SortedAsc(_)
SortedAsc(pairs) ==
    IF pairs = <<>> THEN <<>>
    ELSE InsertAsc(pairs[Len(pairs)], SortedAsc(SubSeq(pairs, 1, Len(pairs) - 1)))

RECURSIVE SortedDesc(_)
SortedDesc(pairs) ==
    IF pairs = <<>> THEN <<>>
    ELSE InsertDesc(pairs[Len(pairs)], SortedDesc(SubSeq(pairs, 1, Len(pairs) - 1)))

\* the generator ((score_device_name(d), d) for d in devices)
RECURSIVE ScoredPairs(_)
ScoredPairs(devices) ==
    IF devices = <<>> THEN <<>>
    ELSE <<<<score_device_name(Head(devices)), Head(devices)>>>>
         \o ScoredPairs(Tail(devices))

choose_best_device_ascending(devices) ==
    IF devices = <<>> THEN None
    ELSE SortedAsc(ScoredPairs(devices))[1][2]

choose_best_device(devices) ==
    IF devices = <<>> THEN None
    ELSE SortedDesc(ScoredPairs(devices))[1][2]

(***************************************************************************)
(* str and list helpers of the Device Enumerator                           *)
(***************************************************************************)
\* the characters str.strip() removes
Whitespace == {" ", "\t", "\n", "\r", "\f"}

\* s.strip(chars): drop leading and trailing characters that are in chars
StripSet(s, chars) ==
    IF \A i \in 1..Len(s) : Char(s, i) \in chars THEN ""
    ELSE SubSeq(s,
                CHOOSE i \in 1..Len(s) :
                    Char(s, i) \notin chars /\ \A j \in 1..(i - 1) : Char(s, j) \in chars,
                CHOOSE i \in 1..Len(s) :
                    Char(s, i) \notin chars /\ \A j \in (i + 1)..Len(s) : Char(s, j) \in chars)

\* s.strip()
Strip(s) == StripSet(s, Whitespace)

StartsWith(s, c) == Len(s) >= 1 /\ Char(s, 1) = c
EndsWith(s, c) == Len(s) >= 1 /\ Char(s, Len(s)) = c

\* s.split(sep) for a one-character sep: the pieces between the
\* occurrences of sep, always occurrences + 1 of them
RECURSIVE Split(_, _)
Split(s, sep) ==
    IF \A i \in 1..Len(s) : Char(s, i) /= sep THEN <<s>>
    ELSE LET at == CHOOSE i \in 1..Len(s) :
                       Char(s, i) = sep /\ \A j \in 1..(i - 1) : Char(s, j) /= sep
         IN  <<SubSeq(s, 1, at - 1)>> \o Split(SubSeq(s, at + 1, Len(s)), sep)

\* s.splitlines(): like split on "\n", but a trailing line break opens no
\* further (empty) line and '' has no lines.  (subprocess text=True has
\* already turned "\r\n" and "\r" into "\n".)
SplitLines(s) ==
    LET parts == Split(s, "\n")
    IN  IF parts[Len(parts)] = "" THEN SubSeq(parts, 1, Len(parts) - 1)
        ELSE parts

Elems(s) == {s[i] : i \in 1..Len(s)}

\* the list without any deduplication
DedupNone(s) == s

\* list(dict.fromkeys(s)): first occurrence of each element, in order
RECURSIVE Dedup(_)
Dedup(s) ==
    IF s = <<>> THEN <<>>
    ELSE LET d == Dedup(SubSeq(s, 1, Len(s) - 1))
         IN  IF s[Len(s)] \in Elems(d) THEN d ELSE Append(d, s[Len(s)])

(***************************************************************************)
(* External processes.  A ProcOutcome is what subprocess.run does for one  *)
(* invocation: it raises (exc names the exception class) or completes with *)
(* a return code and the two captured streams.                             *)
(***************************************************************************)
Raised(e) == [exc |-> e, val |-> None]
Returned(v) == [exc |-> None, val |-> v]

\* launch failure (no such program) and timeout of subprocess.run
LaunchFailure == [exc |-> "FileNotFoundError", rc |-> 0, stdout |-> "", stderr |-> ""]
Timeout == [exc |-> "TimeoutExpired", rc |-> 0, stdout |-> "", stderr |-> ""]
Completed(rc, out, err) == [exc |-> None, rc |-> rc, stdout |-> out, stderr |-> err]

\* a handler that names subprocess.TimeoutExpired only
ExceptTimeoutOnly(e) == e = "TimeoutExpired"

\* `except Exception`: both exception classes derive from Exception
ExceptException(e) == e \in {"FileNotFoundError", "TimeoutExpired"}

\* _run_powershell: (completed.stdout or '').strip(); the return code is
\* not looked at
_run_powershell(o) ==
    IF o.exc /= None THEN Raised(o.exc) ELSE Returned(Strip(o.stdout))

\* _run_cmd: (returncode, stdout.strip(), stderr.strip())
_run_cmd(o) ==
    IF o.exc /= None THEN Raised(o.exc)
    ELSE Returned(<<o.rc, Strip(o.stdout), Strip(o.stderr)>>)

(***************************************************************************)
(* find_capture_devices_pnp                                                *)
(***************************************************************************)
\* [line.strip() for line in lines if line.strip()]
RECURSIVE StrippedNonEmpty(_)
StrippedNonEmpty(lines) ==
    IF lines = <<>> THEN <<>>
    ELSE (IF Strip(Head(lines)) /= "" THEN <<Strip(Head(lines))>> ELSE <<>>)
         \o StrippedNonEmpty(Tail(lines))

\* [line.strip() for line in out.splitlines() if line.strip()]
StrippedLines(out) == StrippedNonEmpty(SplitLines(out))

\* the client-side keyword list of the third query
keywords ==
    <<"elgato", "blackmagic", "avermedia", "hauppauge", "capture", "hdmi",
      "usb", "camera", "cam">>

\* for name in all_names: if any(k in name.lower() for k in keywords)
KeywordFiltered(all_names) ==
    SelectSeq(all_names,
              LAMBDA name : \E i \in 1..Len(keywords) :
                                Contains(keywords[i], Lower(name)))

\* outcome of one try block: it returns a list, falls through to the code
\* after the try statement, or lets an exception escape
Return(v) == [kind |-> "return", val |-> v, exc |-> None]
Fall == [kind |-> "fall", val |-> <<>>, exc |-> None]
Escape(e) == [kind |-> "raise", val |-> <<>>, exc |-> e]

\* try: <body> except Exception: pass
TryExcept(body) ==
    IF body.kind = "raise" /\ ExceptException(body.exc) THEN Fall ELSE body

\* bodies of the first and second try blocks (the queries differ, the
\* handling of their output does not)
ListedBody(o) ==
    LET r == _run_powershell(o)
    IN  IF r.exc /= None THEN Escape(r.exc)
        ELSE IF r.val /= "" THEN Return(Dedup(StrippedLines(r.val)))
        ELSE Fall

\* body of the third try block: all names, filtered in Python
UnfilteredBody(o) ==
    LET r == _run_powershell(o)
    IN  IF r.exc /= None THEN Escape(r.exc)
        ELSE IF r.val /= ""
             THEN Return(Dedup(KeywordFiltered(StrippedLines(r.val))))
        ELSE Fall

\* result of a function call: the exception that escaped it (or None), the
\* value it returned, and the strategies it invoked, in order
Result(e, v, strategies) == [exc |-> e, val |-> v, ran |-> strategies]

\* the camera-class query is tried before the keyword-filtered one
find_capture_devices_pnp_camera_first(env) ==
    LET s1 == TryExcept(ListedBody(env.camera))
        s2 == TryExcept(ListedBody(env.cim))
        s3 == TryExcept(UnfilteredBody(env.all))
    IN  IF s1.kind /= "fall" THEN Result(s1.exc, s1.val, <<"camera">>)
        ELSE IF s2.kind /= "fall" THEN Result(s2.exc, s2.val, <<"camera", "cim">>)
        ELSE IF s3.kind /= "fall"
             THEN Result(s3.exc, s3.val, <<"camera", "cim", "all">>)
        ELSE Result(None, <<>>, <<"camera", "cim", "all">>)

find_capture_devices_pnp(env) ==
    LET s1 == TryExcept(ListedBody(env.cim))
        s2 == TryExcept(ListedBody(env.camera))
        s3 == TryExcept(UnfilteredBody(env.all))
    IN  IF s1.kind /= "fall" THEN Result(s1.exc, s1.val, <<"cim">>)
        ELSE IF s2.kind /= "fall" THEN Result(s2.exc, s2.val, <<"cim", "camera">>)
        ELSE IF s3.kind /= "fall"
             THEN Result(s3.exc, s3.val, <<"cim", "camera", "all">>)
        ELSE Result(None, <<>>, <<"cim", "camera", "all">>)

(***************************************************************************)
(* find_capture_devices_ffmpeg                                             *)
(***************************************************************************)
Quote == "\""

\* the names one line of the listing contributes (none or one)
FfmpegLineNames(raw) ==
    LET line == Strip(raw)
    IN  IF line = "" THEN <<>>
        ELSE IF StartsWith(line, Quote) /\ EndsWith(line, Quote)
             THEN <<StripSet(line, {Quote})>>
        ELSE IF Contains(Quote, line)
             THEN LET parts == Split(line, Quote)
                  IN  IF Len(parts) >= 3 /\ Strip(parts[2]) /= ""
                      THEN <<Strip(parts[2])>>
                      ELSE <<>>
        ELSE <<>>

RECURSIVE FfmpegNamesOf(_)
FfmpegNamesOf(ls) ==
    IF ls = <<>> THEN <<>>
    ELSE FfmpegLineNames(Head(ls)) \o FfmpegNamesOf(Tail(ls))

\* body of the try block inside the loop over cmds: the names appended to
\* devices; the return code is not looked at
FfmpegBody(o) ==
    LET r == _run_cmd(o)
    IN  IF r.exc /= None THEN Escape(r.exc)
        ELSE Return(FfmpegNamesOf(SplitLines(r.val[2] \o "\n" \o r.val[3])))

find_capture_devices_ffmpeg(env) ==
    LET b == TryExcept(FfmpegBody(env.ffmpeg))
    IN  IF b.kind = "raise" THEN Result(b.exc, <<>>, <<"ffmpeg">>)
        ELSE Result(None, Dedup(b.val), <<"ffmpeg">>)

(***************************************************************************)
(* find_capture_devices                                                    *)
(***************************************************************************)
find_capture_devices(env) ==
    LET pnp == find_capture_devices_pnp(env)
    IN  IF pnp.exc /= None \/ pnp.val /= <<>> THEN pnp
        ELSE LET ff == find_capture_devices_ffmpeg(env)
             IN  Result(ff.exc, ff.val, pnp.ran \o ff.ran)

(***************************************************************************)
(* Bounded inputs of the pure functions                                    *)
(***************************************************************************)
MaxFrags == 2
MaxDevices == 3

\* name fragments: every keyword of the table can be formed, in mixed
\* case; two fragments reach 19, 20 and 21 characters
Fragments ==
    { "Elgato", "Blackmagic", "Blackmagic Design ", "AVerMedia", "Hauppauge",
      "Capture", "Video", "HDMI", "USB", "Web", "cam", "camera", " " }

RECURSIVE NamesOf(_)
NamesOf(k) ==
    IF k = 0 THEN {""}
    ELSE LET shorter == NamesOf(k - 1)
         IN  shorter \cup {n \o f : n \in shorter, f \in Fragments}

Names == NamesOf(MaxFrags)

\* candidate names, some tied in score (82; 50, 50; 9; 0, 0)
DeviceNames ==
    { "USB Video Device", "Elgato HD60", "Generic Camera", "Mouse", "",
      "USB3 Video capture card" }

RECURSIVE SeqsUpTo(_, _)
SeqsUpTo(S, k) ==
    IF k = 0 THEN {<<>>}
    ELSE LET shorter == SeqsUpTo(S, k - 1)
         IN  shorter \cup {Append(s, x) : s \in shorter, x \in S}

DeviceLists == SeqsUpTo(DeviceNames, MaxDevices)

MaxLines == 3

\* lines a query or the ffmpeg listing may print
RawLines ==
    { "USB Video Device", "  Elgato HD60 ", "Mouse", "",
      "\"USB Video Device\"", "[dshow]  \"Elgato HD60\" (video)" }

RECURSIVE JoinLines(_)
JoinLines(ls) ==
    IF ls = <<>> THEN ""
    ELSE IF Len(ls) = 1 THEN ls[1]
    ELSE ls[1] \o "\n" \o JoinLines(Tail(ls))

RawTexts == {JoinLines(ls) : ls \in SeqsUpTo(RawLines, MaxLines)}

Strategies == <<"cim", "camera", "all", "ffmpeg">>

\* outcomes of a strategy that yields nothing
Blocked == {LaunchFailure, Timeout, Completed(0, "", "")}

\* what the strategies after the probed one would print, were they run
LaterOutcome == Completed(1, "USB Later Device", "\"Later Device\"")

\* environment in which strategy number w prints text (on stdout or on
\* stderr), every earlier strategy yields nothing and the later ones would
\* list another device
EnvWith(w, blocked, onStderr, text) ==
    LET o(i) == IF i < w THEN blocked
                ELSE IF i > w THEN LaterOutcome
                ELSE IF onStderr THEN Completed(1, "", text)
                ELSE Completed(0, text, "")
    IN  [cim |-> o(1), camera |-> o(2), all |-> o(3), ffmpeg |-> o(4)]

\* the queries print names on stdout; ffmpeg prints its listing on stderr
\* (or on stdout)
EnumInputs ==
    {EnvWith(w, b, FALSE, t) : w \in 1..4, b \in Blocked, t \in RawTexts}
    \cup {EnvWith(4, b, TRUE, t) : b \in Blocked, t \in RawTexts}

\* the unfiltered query prints names none of which has a keyword, after
\* two strategies that yield nothing; ffmpeg prints a listing
UnmatchedInputs ==
    {[cim |-> b, camera |-> b, all |-> Completed(0, "Mouse\nKeyboard", ""),
      ffmpeg |-> Completed(1, "", t)] : b \in Blocked, t \in RawTexts}

\* output that names no device: text without keyword on stdout, an error
\* message with one stray quote on stderr
Garbage == Completed(1, "???", "dummy: unexpected \" in input")

\* per-strategy outcomes of a machine on which enumeration goes wrong
FailureKinds == {LaunchFailure, Timeout, Completed(0, "", ""), Garbage}

\* every combination of them across the four strategies
FailingInputs ==
    [cim : FailureKinds, camera : FailureKinds, all : FailureKinds,
     ffmpeg : FailureKinds]

(***************************************************************************)
(* Configuration file and Device Selection Orchestrator                    *)
(*                                                                         *)
(* The file is missing, cannot be opened ("unreadable"), holds text that  *)
(* is not JSON ("invalid"), holds a JSON value that is not an object       *)
(* ("list"), or holds a JSON object ("dict").  A dict is a record over the *)
(* member names the model knows,                                           *)
(* with Absent for a member the object does not have; a member's value is  *)
(* a str or None (JSON null).                                              *)
(***************************************************************************)
Absent == "<absent>"

EmptyDict == [source |-> Absent, device |-> Absent, window |-> Absent]

PyDict(d) == [type |-> "dict", dict |-> d]
PyList == [type |-> "list", dict |-> EmptyDict]

\* json.load of the file: raises when the file cannot be opened or parsed
json_load(f) ==
    IF f.kind = "missing" THEN Raised("FileNotFoundError")
    ELSE IF f.kind = "unreadable" THEN Raised("PermissionError")
    ELSE IF f.kind = "invalid" THEN Raised("JSONDecodeError")
    ELSE IF f.kind = "list" THEN Returned(PyList)
    ELSE Returned(PyDict(f.dict))

\* a file that cannot be loaded counts as one that asks for capture
load_config_assume_capture(f) ==
    LET r == json_load(f)
    IN  IF r.exc /= None
        THEN PyDict([EmptyDict EXCEPT !["source"] = "capture"])
        ELSE r.val

\* load_config: any exception gives {}
load_config(f) ==
    LET r == json_load(f)
    IN  IF r.exc /= None THEN PyDict(EmptyDict) ELSE r.val

\* what save_config may do: write the document; fail in open() before the
\* file is touched; fail after open(p, 'w') has truncated it
SaveOutcomes == {"ok", "open_error", "write_error"}

\* save_config: [exc, file]
save_config(cfg, f, outcome) ==
    IF outcome = "ok" THEN [exc |-> None, file |-> [kind |-> "dict", dict |-> cfg.dict]]
    ELSE IF outcome = "open_error" THEN [exc |-> "OSError", file |-> f]
    ELSE [exc |-> "OSError", file |-> [kind |-> "invalid", dict |-> EmptyDict]]

\* cfg.get(key)
Get(d, key) == IF d[key] = Absent THEN None ELSE d[key]

\* cfg['device'] = best left out
WithDeviceUnchanged(cfg, name) == cfg

\* cfg['device'] = best
WithDevice(cfg, name) == PyDict([cfg.dict EXCEPT !["device"] = name])

\* the test that is never true
NotCaptureNever(cfg) == FALSE

\* cfg.get('source') != 'capture'
NotCapture(cfg) == Get(cfg.dict, "source") /= "capture"

\* the test that is never true
PinnedNever(cfg) == FALSE

\* if cfg.get('device')
Pinned(cfg) == Truthy(Get(cfg.dict, "device"))

\* what the probed strategy prints in the orchestrator's environments
DiscTexts ==
    { "", "Mouse", "USB Video Device\nElgato HD60\nUSB Video Device",
      "\"\"", "\"HD Webcam\"\n[dshow] \"Game Capture HD60\"" }

\* no strategy gets anywhere
NothingListed ==
    [cim |-> LaunchFailure, camera |-> Timeout, all |-> Completed(0, "", ""),
     ffmpeg |-> LaunchFailure]

\* the first query, the unfiltered query or ffmpeg (on stderr) prints one
\* of the texts, after timeouts of the strategies before it
DiscEnvs ==
    {EnvWith(w, Timeout, w = 4, t) : w \in {1, 3, 4}, t \in DiscTexts}
    \cup {NothingListed}

\* outcome of one call
Outcome(r, e, strategies, c, n, b, f) ==
    [ret |-> r, exc |-> e, ran |-> strategies, chose |-> c, saves |-> n,
     best |-> b, file |-> f]

\* the one element of a set that holds one
The(S) == CHOOSE x \in S : TRUE

\* lines 171-176, with the values of devices and best
AfterDiscovery(cfg, f, dry_run, saveOutcome, devices, b) ==
    IF devices.exc /= None
    THEN Outcome(None, devices.exc, devices.ran, FALSE, 0, None, f)
    ELSE IF Truthy(b)
         THEN IF dry_run
              THEN Outcome(b, None, devices.ran, TRUE, 0, b, f)
              ELSE LET s == save_config(WithDevice(cfg, b), f, saveOutcome)
                   IN  IF s.exc /= None
                       THEN Outcome(None, s.exc, devices.ran, TRUE, 1, b, s.file)
                       ELSE Outcome(b, None, devices.ran, TRUE, 1, b, s.file)
    ELSE Outcome(None, None, devices.ran, TRUE, 0, b, f)

\* lines 169-170: devices = find_capture_devices() and
\* best = choose_best_device(devices), each evaluated once
Discovery(cfg, f, dry_run, saveOutcome, env) ==
    The({ The({ AfterDiscovery(cfg, f, dry_run, saveOutcome, devices, b) :
                b \in {choose_best_device(devices.val)} }) :
          devices \in {find_capture_devices(env)} })

ensure_default_capture_device(f, dry_run, env, saveOutcome) ==
    LET cfg == load_config(f)
    IN  IF cfg.type /= "dict" THEN Outcome(None, None, <<>>, FALSE, 0, None, f)
        ELSE IF NotCapture(cfg) THEN Outcome(None, None, <<>>, FALSE, 0, None, f)
        ELSE IF Pinned(cfg)
             THEN Outcome(Get(cfg.dict, "device"), None, <<>>, FALSE, 0, None, f)
        ELSE Discovery(cfg, f, dry_run, saveOutcome, env)

\* --- bounded inputs -----------------------------------------------------
MaxCalls == 3

\* what may be in a configuration file at the start
SourceValues == {Absent, "capture", "file", None}
DeviceValues == {Absent, "Old Device", "", None}
WindowValues == {Absent, "800x600"}

ConfigDicts ==
    [source : SourceValues, device : DeviceValues, window : WindowValues]

ConfigFiles ==
    {[kind |-> k, dict |-> EmptyDict] : k \in {"missing", "unreadable", "invalid", "list"}}
    \cup {[kind |-> "dict", dict |-> d] : d \in ConfigDicts}

(***************************************************************************)
(* Frame Acquisition Loop: VideoCaptureThread (window.py)                  *)
(*                                                                         *)
(* run() executes on the worker thread, start() and stop() on the host's   *)
(* GUI thread; the two interleave statement by statement.  The thread may  *)
(* hold two handles: the one opened by device name and the one opened by   *)
(* index 0.                                                                *)
(***************************************************************************)
Handles == {"named", "index0"}

\* cv2.VideoCapture(...) gives an opened capture, gives a capture that is
\* not opened, or raises
OpenResults == {"opened", "unopened", "raise"}

\* cap.read() gives (False, None), gives (True, None), gives a BGR frame
\* ("ok"), gives a frame that cvtColor or the shape unpacking rejects
\* ("bad"), or raises
ReadResults == {"fail", "empty", "ok", "bad", "raise"}

\* a device: the answers to its next reads, and the answer it keeps giving
\* after them
Device(script, steady) == [script |-> script, steady |-> steady]

\* the answer to the next read of an opened capture
NextAnswer(d) == IF d.script = <<>> THEN d.steady ELSE Head(d.script)

\* the device after that read
AfterRead(d) ==
    IF d.script = <<>> THEN d ELSE Device(Tail(d.script), d.steady)

\* the thread object as __init__ leaves it, not started
ThreadConstructed ==
    /\ _running = TRUE
    /\ _cap = None
    /\ pc = "idle"
    /\ hpc = "init"
    /\ opens = [named |-> None, index0 |-> None]
    /\ live = [named |-> FALSE, index0 |-> FALSE]
    /\ releases = [named |-> 0, index0 |-> 0]
    /\ lastRead = None
    /\ retries = 0
    /\ frames = 0
    /\ emitted = 0
    /\ raised = FALSE
    /\ stopAt = None
    /\ sinceStop = 0
    /\ raced = FALSE
    /\ frame = 0
    /\ pending = <<>>
    /\ delivered = <<>>

\* no preview is running
RunIdle ==
    /\ cv2 = TRUE
    /\ device = Device(<<>>, "fail")
    /\ ThreadConstructed

\* --- bounds -------------------------------------------------------------
MaxReads == 2
MaxRetries == 3
MaxFrames == 2

RECURSIVE ScriptsUpTo(_)
ScriptsUpTo(k) ==
    IF k = 0 THEN {<<>>}
    ELSE LET shorter == ScriptsUpTo(k - 1)
         IN  shorter \cup {<<r>> \o t : r \in ReadResults, t \in shorter}

Devices == {Device(t, st) : t \in ScriptsUpTo(MaxReads), st \in {"fail", "ok"}}

\* if not ret or frame is None
ReadFailed(r) == r \in {"fail", "empty"}

\* the read gave a frame
Delivers(r) == r \in {"ok", "bad"}

\* cv2.cvtColor(frame, cv2.COLOR_BGR2RGB) and h, w, ch = rgb.shape succeed
Convertible(r) == r = "ok"

\* a failed read ends the loop
AfterFailedReadBreak == "finally"

\* msleep(30); continue
AfterFailedRead == "loop"

\* after self._cap = cv2.VideoCapture(0) control falls to the while loop
AfterFallback(r) == "loop"

\* the release is left out
ReleaseSkipped(h) == UNCHANGED <<live, releases>>

\* cap.release(): the capture is closed; an exception in it is swallowed
Release(h) ==
    /\ releases' = [releases EXCEPT ![h] = @ + 1]
    /\ live' = [live EXCEPT ![h] = FALSE]

\* --- run() --------------------------------------------------------------
\* if cv2 is None: return
Run_CheckCv2 ==
    /\ pc = "run"
    /\ pc' = IF cv2 THEN "open" ELSE "done"
    /\ UNCHANGED <<cv2, _running, _cap, hpc, opens, live, releases, device,
                   lastRead, retries, frames, emitted, raised>>
    /\ UNCHANGED otherVars
    /\ UNCHANGED <<stopAt, sinceStop, raced, frame, pending, delivered>>

\* self._cap = cv2.VideoCapture(f"dshow:{cap_str}")
Run_OpenNamed ==
    /\ pc = "open"
    /\ \E r \in OpenResults :
         /\ opens' = [opens EXCEPT !["named"] = r]
         /\ IF r = "raise"
            THEN /\ raised' = TRUE
                 /\ pc' = "finally"
                 /\ UNCHANGED <<_cap, live>>
            ELSE /\ _cap' = "named"
                 /\ live' = [live EXCEPT !["named"] = (r = "opened")]
                 /\ pc' = "isOpened"
                 /\ UNCHANGED raised
    /\ UNCHANGED <<cv2, _running, hpc, releases, device, lastRead, retries,
                   frames, emitted>>
    /\ UNCHANGED otherVars
    /\ UNCHANGED <<stopAt, sinceStop, raced, frame, pending, delivered>>

\* if not self._cap.isOpened():
Run_IsOpened ==
    /\ pc = "isOpened"
    /\ pc' = IF live[_cap] THEN "loop" ELSE "fallback"
    /\ UNCHANGED <<cv2, _running, _cap, hpc, opens, live, releases, device,
                   lastRead, retries, frames, emitted, raised>>
    /\ UNCHANGED otherVars
    /\ UNCHANGED <<stopAt, sinceStop, raced, frame, pending, delivered>>

\* try: self._cap = cv2.VideoCapture(0) / except Exception: return
Run_OpenFallback ==
    /\ pc = "fallback"
    /\ \E r \in OpenResults :
         /\ opens' = [opens EXCEPT !["index0"] = r]
         /\ IF r = "raise"
            THEN /\ pc' = "finally"
                 /\ UNCHANGED <<_cap, live>>
            ELSE /\ _cap' = "index0"
                 /\ live' = [live EXCEPT !["index0"] = (r = "opened")]
                 /\ pc' = AfterFallback(r)
    /\ UNCHANGED <<cv2, _running, hpc, releases, device, lastRead, retries,
                   frames, emitted, raised>>
    /\ UNCHANGED otherVars
    /\ UNCHANGED <<stopAt, sinceStop, raced, frame, pending, delivered>>

\* the loop goes on whatever the flag says
LoopConditionNoFlag == _cap /= None

\* while self._running and self._cap is not None:
LoopCondition == _running /\ _cap /= None

Run_LoopTest ==
    /\ pc = "loop"
    /\ pc' = IF LoopCondition THEN "read" ELSE "finally"
    /\ UNCHANGED <<cv2, _running, _cap, hpc, opens, live, releases, device,
                   lastRead, retries, frames, emitted, raised>>
    /\ UNCHANGED otherVars
    /\ UNCHANGED <<stopAt, sinceStop, raced, frame, pending, delivered>>

\* what the read answers: an opened capture asks the device, one that is
\* not opened answers (False, None); a read during which another thread
\* released the capture is a data race and may answer anything
ReadAnswers ==
    IF raced THEN ReadResults
    ELSE IF live[_cap] THEN {NextAnswer(device)}
    ELSE {"fail"}

\* the device delivers MaxFrames frames at most and fails its reads after
Bounded(a) == IF Delivers(a) /\ frames >= MaxFrames THEN "fail" ELSE a

\* ret, frame = self._cap.read() / if not ret or frame is None:
Run_Read ==
    /\ pc = "read"
    /\ \E a \in ReadAnswers :
         \E r \in {Bounded(a)} :
             /\ lastRead' = r
             /\ device' = IF live[_cap] THEN AfterRead(device) ELSE device
             /\ IF r = "raise"
                THEN /\ raised' = TRUE
                     /\ pc' = "finally"
                     /\ UNCHANGED <<retries, frames, frame>>
                ELSE IF ReadFailed(r)
                THEN /\ pc' = "retry"
                     /\ retries' = IF retries < MaxRetries THEN retries + 1 ELSE retries
                     /\ UNCHANGED <<frames, raised, frame>>
                ELSE /\ pc' = "emit"
                     /\ frames' = frames + 1
                     /\ frame' = frames + 1
                     /\ UNCHANGED <<retries, raised>>
    /\ raced' = FALSE
    /\ UNCHANGED <<cv2, _running, _cap, hpc, opens, live, releases, emitted>>
    /\ UNCHANGED otherVars
    /\ UNCHANGED <<stopAt, sinceStop, pending, delivered>>

\* self.msleep(30) / continue
Run_Retry ==
    /\ pc = "retry"
    /\ pc' = AfterFailedRead
    /\ UNCHANGED <<cv2, _running, _cap, hpc, opens, live, releases, device,
                   lastRead, retries, frames, emitted, raised>>
    /\ UNCHANGED otherVars
    /\ UNCHANGED <<stopAt, sinceStop, raced, frame, pending, delivered>>

\* cvtColor, rgb.shape, QImage, self.frameReady.emit(qimg.copy()): a frame
\* that cannot be converted raises; the emission of a copy is queued for
\* the slot, which runs in the GUI thread
Run_Emit ==
    /\ pc = "emit"
    /\ IF Convertible(lastRead)
       THEN /\ emitted' = emitted + 1
            /\ pending' = Append(pending, frame)
            /\ sinceStop' = IF _running THEN sinceStop ELSE sinceStop + 1
            /\ pc' = "sleep"
            /\ UNCHANGED raised
       ELSE /\ raised' = TRUE
            /\ pc' = "finally"
            /\ UNCHANGED <<emitted, pending, sinceStop>>
    /\ UNCHANGED <<cv2, _running, _cap, hpc, opens, live, releases, device,
                   lastRead, retries, frames>>
    /\ UNCHANGED otherVars
    /\ UNCHANGED <<stopAt, raced, frame, delivered>>

\* self.msleep(30) at the end of the loop body
Run_Sleep ==
    /\ pc = "sleep"
    /\ pc' = "loop"
    /\ UNCHANGED <<cv2, _running, _cap, hpc, opens, live, releases, device,
                   lastRead, retries, frames, emitted, raised>>
    /\ UNCHANGED otherVars
    /\ UNCHANGED <<stopAt, sinceStop, raced, frame, pending, delivered>>

\* finally: if self._cap is not None: self._cap.release()
Run_Finally ==
    /\ pc = "finally"
    /\ IF _cap /= None THEN Release(_cap) ELSE UNCHANGED <<live, releases>>
    /\ pc' = "done"
    /\ UNCHANGED <<cv2, _running, _cap, hpc, opens, device, lastRead, retries,
                   frames, emitted, raised>>
    /\ UNCHANGED otherVars
    /\ UNCHANGED <<stopAt, sinceStop, raced, frame, pending, delivered>>

\* --- the host -----------------------------------------------------------
\* worker.start()
Host_Start ==
    /\ hpc = "init"
    /\ pc = "idle"
    /\ hpc' = "started"
    /\ pc' = "run"
    /\ UNCHANGED <<cv2, _running, _cap, opens, live, releases, device,
                   lastRead, retries, frames, emitted, raised>>
    /\ UNCHANGED otherVars
    /\ UNCHANGED <<stopAt, sinceStop, raced, frame, pending, delivered>>

\* stop(): self._running = False
Stop_SetFlag ==
    /\ hpc = "started"
    /\ _running' = FALSE
    /\ stopAt' = pc
    /\ hpc' = "stop_release"
    /\ UNCHANGED <<cv2, _cap, pc, opens, live, releases, device, lastRead,
                   retries, frames, emitted, raised>>
    /\ UNCHANGED otherVars
    /\ UNCHANGED <<sinceStop, raced, frame, pending, delivered>>

\* stop(): if self._cap is not None: self._cap.release()
Stop_Release ==
    /\ hpc = "stop_release"
    /\ IF _cap /= None THEN Release(_cap) ELSE UNCHANGED <<live, releases>>
    /\ raced' = (_cap /= None /\ pc = "read")
    /\ hpc' = "stop_wait"
    /\ UNCHANGED <<cv2, _running, _cap, pc, opens, device, lastRead, retries,
                   frames, emitted, raised>>
    /\ UNCHANGED otherVars
    /\ UNCHANGED <<stopAt, sinceStop, frame, pending, delivered>>

\* stop(): self.wait(1000) returns when run() has finished or the second
\* has passed
Stop_Wait ==
    /\ hpc = "stop_wait"
    /\ hpc' = "stopped"
    /\ UNCHANGED <<cv2, _running, _cap, pc, opens, live, releases, device,
                   lastRead, retries, frames, emitted, raised>>
    /\ UNCHANGED otherVars
    /\ UNCHANGED <<stopAt, sinceStop, raced, frame, pending, delivered>>

\* the GUI thread's event loop calls the slot, _on_frame, with the oldest
\* queued emission; it does so outside stop()
Host_OnFrame ==
    /\ hpc \in {"started", "stopped"}
    /\ pending /= <<>>
    /\ delivered' = Append(delivered, Head(pending))
    /\ pending' = Tail(pending)
    /\ UNCHANGED <<cv2, _running, _cap, pc, hpc, opens, live, releases, device,
                   lastRead, retries, frames, emitted, raised>>
    /\ UNCHANGED otherVars
    /\ UNCHANGED <<stopAt, sinceStop, raced, frame>>

RunStep ==
    \/ Run_CheckCv2
    \/ Run_OpenNamed
    \/ Run_IsOpened
    \/ Run_OpenFallback
    \/ Run_LoopTest
    \/ Run_Read
    \/ Run_Retry
    \/ Run_Emit
    \/ Run_Sleep
    \/ Run_Finally

HostStep ==
    \/ Host_Start
    \/ Stop_SetFlag
    \/ Stop_Release
    \/ Stop_Wait
    \/ Host_OnFrame

\* the orchestrator at rest
DiscoverIdle ==
    /\ file = [kind |-> "missing", dict |-> EmptyDict]
    /\ before = file
    /\ ret = None /\ escaped = None /\ ran = <<>> /\ chose = FALSE
    /\ saves = 0 /\ best = None /\ dryRun = FALSE /\ written = None
    /\ calls = 0
    /\ status = <<>>

\* the pure-function harness at rest
PureIdle == fn = "none" /\ arg = None /\ res = None /\ called = FALSE

InitDiscover ==
    /\ file \in ConfigFiles
    /\ before = file
    /\ ret = None
    /\ escaped = None
    /\ ran = <<>>
    /\ chose = FALSE
    /\ saves = 0
    /\ best = None
    /\ dryRun = FALSE
    /\ written = None
    /\ calls = 0
    /\ status = <<>>
    /\ PureIdle
    /\ RunIdle

\* one call of ensure_default_capture_device, in whatever environment the
\* machine offers at that time
EnsureDefaultCaptureDevice ==
    /\ calls < MaxCalls
    /\ \E dry_run \in BOOLEAN, env \in DiscEnvs, saveOutcome \in SaveOutcomes :
         \E o \in {ensure_default_capture_device(file, dry_run, env, saveOutcome)} :
             /\ file' = o.file
             /\ before' = file
             /\ ret' = o.ret
             /\ escaped' = o.exc
             /\ ran' = o.ran
             /\ chose' = o.chose
             /\ saves' = o.saves
             /\ best' = o.best
             /\ dryRun' = dry_run
             /\ written' = IF o.saves = 1 /\ o.exc = None THEN o.best ELSE written
    /\ calls' = calls + 1
    /\ status' = <<>>
    /\ UNCHANGED pureVars
    /\ UNCHANGED runVars

\* --- capture.py run as a script -----------------------------------------
ExitFound == 0
ExitNone == 2

\* the interpreter's exit status when an exception leaves the script
ExitUncaught == 1

\* every run exits with the status of a found device
ExitStatusAlwaysFound(chosen) == ExitFound

\* if chosen: sys.exit(0) / else: sys.exit(2)
ExitStatus(chosen) == IF Truthy(chosen) THEN ExitFound ELSE ExitNone

\* chosen = ensure_default_capture_device() and the exit that follows
Main ==
    /\ calls < MaxCalls
    /\ \E env \in DiscEnvs, saveOutcome \in SaveOutcomes :
         \E o \in {ensure_default_capture_device(file, FALSE, env, saveOutcome)} :
             /\ file' = o.file
             /\ before' = file
             /\ ret' = o.ret
             /\ escaped' = o.exc
             /\ ran' = o.ran
             /\ chose' = o.chose
             /\ saves' = o.saves
             /\ best' = o.best
             /\ dryRun' = FALSE
             /\ written' = IF o.saves = 1 /\ o.exc = None THEN o.best ELSE written
             /\ status' = <<IF o.exc /= None THEN ExitUncaught ELSE ExitStatus(o.ret)>>
    /\ calls' = calls + 1
    /\ UNCHANGED pureVars
    /\ UNCHANGED runVars

(***************************************************************************)
(* Application bootstrap: ensure_config (main.py)                          *)
(*                                                                         *)
(* The file system holds the configuration path and the backup path        *)
(* (path + ".bad"); each is Missing or holds a text.                       *)
(***************************************************************************)
Missing == "<missing>"

\* json.dumps(DEFAULT_CONFIG, indent=4)
DefaultText ==
    "{\n    \"window\": {\n        \"title\": \"DBII Replay\",\n        \"width\": 800,\n        \"height\": 600\n    }\n}"

DEFAULT_CONFIG ==
    [window |-> [title |-> "DBII Replay", width |-> 800, height |-> 600]]

\* documents json.loads accepts, with the value each parses to
JsonDocuments ==
    { <<DefaultText, DEFAULT_CONFIG>>,
      <<"{\"source\": \"capture\", \"device\": \"Elgato HD60\"}",
        [source |-> "capture", device |-> "Elgato HD60"]>>,
      <<"{}", [type |-> "dict"]>>,
      <<"[1, 2]", <<1, 2>>>>,
      <<"null", None>> }

\* json.loads(path.read_text(encoding="utf-8")): the text of a known
\* document parses to its value, any other text raises
json_loads(text) ==
    IF \E d \in JsonDocuments : d[1] = text
    THEN Returned((CHOOSE d \in JsonDocuments : d[1] = text)[2])
    ELSE Raised("JSONDecodeError")

\* what the file system may do to the calls that change it
IoOutcomes == {"ok", "replace_error", "open_error", "write_error"}

\* path.write_text(text): an error in open() leaves the path as it was, an
\* error while writing leaves a truncated file
write_text(old, text, io) ==
    IF io = "open_error" THEN [exc |-> "OSError", path |-> old]
    ELSE IF io = "write_error" THEN [exc |-> "OSError", path |-> ""]
    ELSE [exc |-> None, path |-> text]

\* the bad file is removed instead of being moved
path_replace_unlink(path, bad, io) ==
    IF io = "replace_error" THEN [exc |-> "OSError", path |-> path, bad |-> bad]
    ELSE [exc |-> None, path |-> Missing, bad |-> bad]

\* path.replace(backup): the file moves to the backup name, over whatever
\* is there
path_replace(path, bad, io) ==
    IF io = "replace_error" THEN [exc |-> "OSError", path |-> path, bad |-> bad]
    ELSE [exc |-> None, path |-> Missing, bad |-> path]

\* outcome of ensure_config
Ensured(r, e, path, bad) == [ret |-> r, exc |-> e, path |-> path, bad |-> bad]

ensure_config(fs) ==
    IF fs.path = Missing
    THEN LET w == write_text(fs.path, DefaultText, fs.io)
         IN  IF w.exc /= None THEN Ensured(None, w.exc, w.path, fs.bad)
             ELSE Ensured(DEFAULT_CONFIG, None, w.path, fs.bad)
    ELSE LET parsed == json_loads(fs.path)
         IN  IF parsed.exc = None THEN Ensured(parsed.val, None, fs.path, fs.bad)
             ELSE LET moved == path_replace(fs.path, fs.bad, fs.io)
                      w == write_text(moved.path, DefaultText, fs.io)
                  IN  IF moved.exc /= None
                      THEN Ensured(None, moved.exc, moved.path, moved.bad)
                      ELSE IF w.exc /= None
                      THEN Ensured(None, w.exc, w.path, moved.bad)
                      ELSE Ensured(DEFAULT_CONFIG, None, w.path, moved.bad)

\* texts that are not JSON
BadTexts == {"{not json", "", "{\"window\": ", "window = 800x600"}

\* what the configuration path holds at the start
PathContents ==
    {Missing} \cup BadTexts \cup {d[1] : d \in JsonDocuments}

\* what the backup path holds at the start
BackupContents == {Missing, "{older bad file", "{not json"}

ConfigInputs ==
    [path : PathContents, bad : BackupContents, io : IoOutcomes]

(***************************************************************************)
(* Pure-function harness                                                   *)
(***************************************************************************)
InitScore ==
    /\ DiscoverIdle
    /\ RunIdle
    /\ fn = "score_device_name"
    /\ arg \in Names
    /\ res = None
    /\ called = FALSE

InitChoose ==
    /\ DiscoverIdle
    /\ RunIdle
    /\ fn = "choose_best_device"
    /\ arg \in DeviceLists
    /\ res = None
    /\ called = FALSE

InitFind ==
    /\ DiscoverIdle
    /\ RunIdle
    /\ fn = "find_capture_devices"
    /\ arg \in EnumInputs \cup FailingInputs \cup UnmatchedInputs
    /\ res = None
    /\ called = FALSE

ApplyScore ==
    /\ ~called
    /\ fn = "score_device_name"
    /\ res' = score_device_name(arg)
    /\ called' = TRUE
    /\ UNCHANGED <<fn, arg>>
    /\ UNCHANGED discVars
    /\ UNCHANGED runVars

ApplyChoose ==
    /\ ~called
    /\ fn = "choose_best_device"
    /\ res' = choose_best_device(arg)
    /\ called' = TRUE
    /\ UNCHANGED <<fn, arg>>
    /\ UNCHANGED discVars
    /\ UNCHANGED runVars

ApplyFind ==
    /\ ~called
    /\ fn = "find_capture_devices"
    /\ res' = find_capture_devices(arg)
    /\ called' = TRUE
    /\ UNCHANGED <<fn, arg>>
    /\ UNCHANGED discVars
    /\ UNCHANGED runVars

InitRun ==
    /\ DiscoverIdle
    /\ PureIdle
    /\ cv2 \in BOOLEAN
    /\ device \in Devices
    /\ ThreadConstructed

NextRun == RunStep \/ HostStep

InitConfig ==
    /\ DiscoverIdle
    /\ RunIdle
    /\ fn = "ensure_config"
    /\ arg \in ConfigInputs
    /\ res = None
    /\ called = FALSE

ApplyConfig ==
    /\ ~called
    /\ fn = "ensure_config"
    /\ res' = ensure_config(arg)
    /\ called' = TRUE
    /\ UNCHANGED <<fn, arg>>
    /\ UNCHANGED discVars
    /\ UNCHANGED runVars

SpecConfig == InitConfig /\ [][ApplyConfig]_vars

SpecScore == InitScore /\ [][ApplyScore]_vars

SpecChoose == InitChoose /\ [][ApplyChoose]_vars

SpecFind == InitFind /\ [][ApplyFind]_vars

NextDiscover == EnsureDefaultCaptureDevice \/ Main

Spec == InitDiscover /\ [][NextDiscover]_vars

SpecRun == InitRun /\ [][NextRun]_vars

\* a started QThread keeps being scheduled: run() goes on to its next
\* statement, and sleeps and reads return
SpecRunFair == InitRun /\ [][NextRun]_vars /\ WF_vars(RunStep)

(***************************************************************************)
(* Claims about the Device Scorer                                          *)
(***************************************************************************)
\* the weight table as the design states it (keyword, weight)
DesignTable ==
    { <<"elgato", 50>>, <<"blackmagic", 50>>, <<"avermedia", 45>>,
      <<"hauppauge", 45>>, <<"capture", 30>>, <<"video", 40>>, <<"hdmi", 25>>,
      <<"usb", 10>>, <<"webcam", 12>>, <<"camera", 5>>, <<"cam", 4>> }

\* k occurs in n at some offset, character by character
OccursIn(k, n) ==
    \E off \in 0..Len(n) :
        /\ off + Len(k) <= Len(n)
        /\ \A j \in 1..Len(k) : Char(n, off + j) = Char(k, j)

RECURSIVE SumWeights(_)
SumWeights(S) ==
    IF S = {} THEN 0
    ELSE LET p == CHOOSE q \in S : TRUE
         IN  p[2] + SumWeights(S \ {p})

ScoreCalled == called /\ fn = "score_device_name"
ChooseCalled == called /\ fn = "choose_best_device"

\* C6: score_device_name(name) is the sum of the weights of all table
\* keywords occurring in the lower-cased name (overlapping ones each counted)
\* plus 2 iff the lower-cased name has more than 20 characters; it is
\* non-negative and 0 for the empty string.
C6_ScoreIsKeywordSum ==
    ScoreCalled =>
        /\ res = SumWeights({p \in DesignTable : OccursIn(p[1], Lower(arg))})
                  + (IF Len(Lower(arg)) > 20 THEN 2 ELSE 0)
        /\ res >= 0
        /\ (arg = "" => res = 0)

\* overlapping keywords: webcam (12) + camera (5) + cam (4)
C6_Witness == ScoreCalled /\ arg = "Webcamera" /\ res = 21

\* C7: choose_best_device returns None exactly for the empty list, and
\* otherwise a member of the list whose score is the maximum.
C7_BestIsMaxMember ==
    ChooseCalled =>
        /\ (res = None <=> arg = <<>>)
        /\ arg /= <<>> =>
              /\ \E i \in 1..Len(arg) : arg[i] = res
              /\ \A j \in 1..Len(arg) :
                    score_device_name(arg[j]) <= score_device_name(res)

C7_Witness ==
    /\ ChooseCalled
    /\ arg = <<"Mouse", "Elgato HD60", "Generic Camera">>
    /\ res = "Elgato HD60"

\* index of the first candidate reaching the maximum score
FirstMaxIndex(devices) ==
    CHOOSE i \in 1..Len(devices) :
        /\ \A j \in 1..Len(devices) :
              score_device_name(devices[j]) <= score_device_name(devices[i])
        /\ \A j \in 1..(i - 1) :
              score_device_name(devices[j]) < score_device_name(devices[i])

\* C8: among candidates sharing the maximum score, choose_best_device
\* returns the one that comes first in the input order.
C8_TieFirstInOrder ==
    (ChooseCalled /\ arg /= <<>>) => res = arg[FirstMaxIndex(arg)]

(***************************************************************************)
(* Claims about the Device Enumerator                                      *)
(***************************************************************************)
FindCalled == called /\ fn = "find_capture_devices"

\* the names a strategy extracts from its raw output, before deduplication
Extracted(env, strategy) ==
    LET o == env[strategy]
    IN  IF o.exc /= None THEN <<>>
        ELSE IF strategy = "ffmpeg"
             THEN FfmpegNamesOf(SplitLines(Strip(o.stdout) \o "\n" \o Strip(o.stderr)))
        ELSE IF strategy = "all"
             THEN KeywordFiltered(StrippedLines(Strip(o.stdout)))
        ELSE StrippedLines(Strip(o.stdout))

FirstIndex(s, x) == CHOOSE i \in 1..Len(s) : s[i] = x /\ \A j \in 1..(i - 1) : s[j] /= x

\* r lists the elements of raw once each, in the order of first occurrence
FirstOccurrenceOrder(r, raw) ==
    /\ \A i, j \in 1..Len(r) : i /= j => r[i] /= r[j]
    /\ Elems(r) = Elems(raw)
    /\ \A i, j \in 1..Len(r) : i < j => FirstIndex(raw, r[i]) < FirstIndex(raw, r[j])

\* C5: whichever strategy produces the result, find_capture_devices returns
\* no string twice and lists the names in the order of their first
\* occurrence in that strategy's raw output.
C5_NoDuplicatesFirstSeenOrder ==
    FindCalled =>
        /\ res.exc = None
        /\ FirstOccurrenceOrder(res.val, Extracted(arg, res.ran[Len(res.ran)]))

\* the ffmpeg listing names a device twice, around another one
C5_Witness ==
    /\ FindCalled
    /\ res.ran = <<"cim", "camera", "all", "ffmpeg">>
    /\ Extracted(arg, "ffmpeg") = <<"USB Video Device", "Elgato HD60", "USB Video Device">>
    /\ res.val = <<"USB Video Device", "Elgato HD60">>

\* every strategy failed to run or printed nothing
NothingYielded(env) ==
    \A st \in Elems(Strategies) :
        \/ env[st].exc /= None
        \/ Strip(env[st].stdout) = "" /\ Strip(env[st].stderr) = ""

\* C4: find_capture_devices never propagates an error, whatever way each of
\* the four strategies goes wrong (launch failure, timeout, empty output,
\* garbage output): it returns a sequence, and the empty sequence when every
\* strategy fails or yields nothing.
C4_NeverPropagates ==
    FindCalled =>
        /\ res.exc = None
        /\ res.val \in Seq(Elems(res.val))
        /\ NothingYielded(arg) => res.val = <<>>

\* launch failure, timeout, empty output and timeout again
C4_Witness ==
    /\ FindCalled
    /\ arg = [cim |-> LaunchFailure, camera |-> Timeout,
              all |-> Completed(0, "", ""), ffmpeg |-> Timeout]
    /\ res.exc = None
    /\ res.ran = Strategies
    /\ res.val = <<>>

(***************************************************************************)
(* Claims about the Device Selection Orchestrator                          *)
(***************************************************************************)
\* the file holds an object with source "capture"
CaptureFile(f) == f.kind = "dict" /\ f.dict.source = "capture"

\* ... and a non-empty device
PinnedFile(f) ==
    /\ CaptureFile(f)
    /\ f.dict.device \notin {Absent, None, ""}

\* the last call made no enumeration, no scoring and no write
NoDiscovery ==
    /\ ran = <<>>
    /\ ~chose
    /\ saves = 0
    /\ file = before
    /\ escaped = None

\* the file as it is with name written into device
FileWithDevice(f, name) ==
    [kind |-> "dict",
     dict |-> [source |-> f.dict.source, device |-> name, window |-> f.dict.window]]

\* C1: once the file has source "capture" and a non-empty device, every
\* call returns that device, runs no strategy and no scoring and writes
\* nothing; a device written by an earlier discovery run stays in the file.
C1_PinnedDeviceIsAuthoritative ==
    /\ (calls > 0 /\ PinnedFile(before)) =>
          /\ ret = before.dict.device
          /\ NoDiscovery
    /\ written /= None =>
          /\ PinnedFile(file)
          /\ file.dict.device = written

\* a discovery run wrote the device; the calls after it return it untouched
C1_Witness ==
    /\ calls = MaxCalls
    /\ written = "USB Video Device"
    /\ PinnedFile(before)
    /\ ret = written
    /\ NoDiscovery

\* C2: when the loaded configuration's source is not "capture" (or there
\* is none), the call returns None, runs no strategy and writes nothing,
\* whether or not a device is present.
C2_NonCaptureDoesNothing ==
    (calls > 0 /\ ~CaptureFile(before)) =>
        /\ ret = None
        /\ NoDiscovery

\* source "file" with a device present
C2_Witness ==
    /\ calls > 0
    /\ before.kind = "dict"
    /\ before.dict.source = "file"
    /\ before.dict.device = "Old Device"
    /\ ret = None
    /\ NoDiscovery

\* the last call found source "capture" and no device pinned
Discovered == calls > 0 /\ CaptureFile(before) /\ ~PinnedFile(before)

\* C3 as stated: with source "capture" and no device pinned, a best
\* candidate is written into device, persisted once and returned; without a
\* candidate the call returns None and the file is as it was.
C3_BestWrittenOnceAndReturned ==
    Discovered =>
        IF best /= None
        THEN /\ ret = best
             /\ saves = 1
             /\ file = FileWithDevice(before, best)
        ELSE /\ ret = None
             /\ saves = 0
             /\ file = before

\* C3: with source "capture" and no device pinned the call enumerates and
\* scores.  A non-empty best candidate is returned without any write when
\* dry_run is set; otherwise save_config is called once with the candidate
\* in device, and the candidate is returned if the write succeeds, while a
\* failing write propagates.  With no candidate, or only the empty name,
\* the call returns None and the file is as it was.
C3_BestWrittenUnlessDryRun ==
    Discovered =>
        /\ ran /= <<>>
        /\ chose
        /\ IF best \notin {None, ""}
           THEN IF dryRun
                THEN ret = best /\ saves = 0 /\ file = before /\ escaped = None
                ELSE /\ saves = 1
                     /\ escaped = None =>
                           ret = best /\ file = FileWithDevice(before, best)
                     /\ escaped /= None =>
                           ret = None /\ file /= FileWithDevice(before, best)
           ELSE ret = None /\ saves = 0 /\ file = before /\ escaped = None

\* discovery picked a device and the write went through
C3_Witness ==
    /\ Discovered
    /\ calls = 1
    /\ ~dryRun
    /\ best = "USB Video Device"
    /\ ret = best
    /\ saves = 1
    /\ escaped = None
    /\ file = FileWithDevice(before, best)
    /\ before.dict.window = "800x600"

(***************************************************************************)
(* Claims about the Frame Acquisition Loop                                 *)
(***************************************************************************)
\* the open by name gave no opened capture and the fallback did not either
BothOpensFailed ==
    /\ opens.named = "unopened"
    /\ opens.index0 \in {"unopened", "raise"}

\* run() is in the body of its while loop
InLoopBody == pc \in {"read", "retry", "emit", "sleep"}

\* C9: if the open by device name fails and the fallback capture is not
\* opened either, run() ends on its own, without a frame and without
\* raising: it never is in the streaming loop.
C9_BothOpensFailTerminates ==
    BothOpensFailed =>
        /\ ~InLoopBody
        /\ emitted = 0
        /\ ~raised

\* the device will fail some reads and then deliver a frame
RECURSIVE FailsThenOk(_)
FailsThenOk(d) ==
    IF d.script = <<>> THEN d.steady = "ok"
    ELSE \/ Head(d.script) = "ok"
         \/ ReadFailed(Head(d.script)) /\ FailsThenOk(AfterRead(d))

\* run() is about to read an opened capture
ReadingOpened == pc = "read" /\ live[_cap]

\* no frame without a successful read, and a failed or empty read is
\* followed by the end of run() only when stop() has cleared the flag
RetriesOnFailure ==
    /\ emitted <= frames
    /\ (lastRead /= None /\ ReadFailed(lastRead) /\ frames = 0) => emitted = 0
    /\ (pc \in {"finally", "done"} /\ lastRead /= None /\ ReadFailed(lastRead))
          => ~_running

\* C10: a failed or empty read never ends run(): while the flag is set the
\* loop sleeps and reads again, emitting nothing for the failures, and a
\* device that fails any number of reads and then delivers a frame leads to
\* a frameReady emission unless stop() intervenes.
C10_RetriesUntilFrame ==
    /\ []RetriesOnFailure
    /\ (ReadingOpened /\ FailsThenOk(device) /\ emitted = 0)
          ~> (emitted > 0 \/ ~_running)

\* two failed reads, then the first frame, with the flag still set
C10_Witness ==
    /\ _running
    /\ retries = 2
    /\ frames = 1
    /\ emitted = 1
    /\ lastRead = "ok"

\* stop() has cleared the flag
StopRequested == ~_running

\* C11: once stop() has cleared the flag, the next evaluation of the loop
\* condition starts no read; at most the one frame of the iteration in
\* flight is emitted and none after run() has left the loop; and run()
\* finishes (the read being assumed to return).
C11_StopsAtNextBoundary ==
    /\ [][(StopRequested /\ pc = "loop") => pc' /= "read"]_vars
    /\ [](sinceStop <= 1)
    /\ [][(StopRequested /\ pc \in {"finally", "done"}) => emitted' = emitted]_vars
    /\ (StopRequested ~> pc = "done")

\* the flag was cleared during a read; that iteration's frame was emitted
\* and run() has finished
C11_Witness ==
    /\ StopRequested
    /\ stopAt = "read"
    /\ sinceStop = 1
    /\ pc = "done"

\* stop() cleared the flag while run() was in its loop on an opened capture
StoppedWhileStreaming ==
    /\ stopAt \in {"loop", "read", "retry", "emit", "sleep"}
    /\ _cap /= None
    /\ opens[_cap] = "opened"

\* run() and stop() have both finished
SessionOver == pc = "done" /\ hpc = "stopped"

\* C12: when stop() is called while the loop is streaming, release() has
\* been called on the capture exactly once by the end of the session,
\* counting the call in stop() and the call in run()'s cleanup.
C12_ReleasedExactlyOnce ==
    (StoppedWhileStreaming /\ SessionOver) => releases[_cap] = 1

(***************************************************************************)
(* Claims about ensure_config                                              *)
(***************************************************************************)
ConfigCalled == called /\ fn = "ensure_config"

\* the path held a text that is not valid JSON
WasCorrupt(fs) == fs.path /= Missing /\ json_loads(fs.path).exc /= None

\* C13: on a file that is not valid JSON ensure_config returns the default,
\* leaves the default at the path and the original text at path + ".bad",
\* and the original text is on disk whatever happens; on a missing file it
\* writes and returns the default; on a valid file it returns the parsed
\* content and writes nothing.
C13_CorruptConfigBackedUp ==
    ConfigCalled =>
        /\ WasCorrupt(arg) =>
              /\ arg.path \in {res.path, res.bad}
              /\ res.exc = None =>
                    /\ res.ret = DEFAULT_CONFIG
                    /\ res.path = DefaultText
                    /\ res.bad = arg.path
        /\ (arg.path = Missing /\ res.exc = None) =>
              /\ res.ret = DEFAULT_CONFIG
              /\ res.path = DefaultText
              /\ res.bad = arg.bad
        /\ (arg.path /= Missing /\ ~WasCorrupt(arg)) =>
              /\ res.exc = None
              /\ res.ret = json_loads(arg.path).val
              /\ res.path = arg.path
              /\ res.bad = arg.bad

\* a truncated document is moved aside, over an older backup
C13_Witness ==
    /\ ConfigCalled
    /\ arg.path = "{\"window\": "
    /\ arg.bad = "{older bad file"
    /\ res.exc = None
    /\ res.ret = DEFAULT_CONFIG
    /\ res.path = DefaultText
    /\ res.bad = "{\"window\": "

(***************************************************************************)
(* Claims about the standalone discovery run                               *)
(***************************************************************************)
\* the last call was a run of capture.py as a script
ScriptRan == status /= <<>>

\* its exit status
ExitCode == status[1]

\* C14 as stated: the script exits with 0 exactly when
\* ensure_default_capture_device returned a device name and with 2 in every
\* other case, and after status 0 the file holds that device.
C14_ExitZeroOrTwo ==
    ScriptRan =>
        /\ ExitCode \in {ExitFound, ExitNone}
        /\ ExitCode = ExitFound <=> ret /= None
        /\ ExitCode = ExitFound => (PinnedFile(file) /\ file.dict.device = ret)

\* C14: when ensure_default_capture_device returns, the script exits with 0
\* if it returned a device name and with 2 if it returned None; status 0
\* implies the file holds that device.  When save_config raises, the
\* exception leaves the script and the exit status is 1.
C14_ExitStatusOfReturn ==
    ScriptRan =>
        /\ escaped = None =>
              /\ ExitCode \in {ExitFound, ExitNone}
              /\ ExitCode = ExitFound <=> ret /= None
        /\ escaped /= None => (ExitCode = ExitUncaught /\ saves = 1)
        /\ ExitCode = ExitFound => (PinnedFile(file) /\ file.dict.device = ret)

\* a script run found and wrote a device
C14_Witness ==
    /\ ScriptRan
    /\ ExitCode = ExitFound
    /\ saves = 1
    /\ ret = "USB Video Device"
    /\ file.dict.device = ret

\* position in the chain of the strategy whose names are the result: the
\* first that extracts a name, the last of the chain if none does
Deciding(env) ==
    IF \E i \in 1..Len(Strategies) : Extracted(env, Strategies[i]) /= <<>>
    THEN CHOOSE i \in 1..Len(Strategies) :
            /\ Extracted(env, Strategies[i]) /= <<>>
            /\ \A j \in 1..(i - 1) : Extracted(env, Strategies[j]) = <<>>
    ELSE Len(Strategies)

\* C15: find_capture_devices invokes the strategies in the order keyword
\* query, camera-class query, unfiltered query, ffmpeg, up to and including
\* the first that yields a non-empty name list, whose names are the result;
\* ffmpeg runs only when the three queries yield nothing, also when the
\* unfiltered query printed names without any keyword.
C15_FirstNonEmptyStrategyWins ==
    FindCalled =>
        /\ res.ran = SubSeq(Strategies, 1, Deciding(arg))
        /\ FirstOccurrenceOrder(res.val, Extracted(arg, Strategies[Deciding(arg)]))
        /\ ("ffmpeg" \in Elems(res.ran)) <=>
              \A st \in {"cim", "camera", "all"} : Extracted(arg, st) = <<>>

\* the unfiltered query printed only names without keyword, so ffmpeg ran
\* and its listing is the result
C15_Witness ==
    /\ FindCalled
    /\ arg.all = Completed(0, "Mouse\nKeyboard", "")
    /\ res.ran = Strategies
    /\ res.val = <<"Elgato HD60">>

\* the invocation failed: the program could not be started, timed out or
\* exited with a status other than zero
FailedInvocation(o) == o.exc /= None \/ o.rc /= 0

\* C16: a failed strategy invocation, also one that exits with a non-zero
\* status while printing output, counts as no result from that strategy:
\* no name of the result comes from it.
C16_FailedInvocationYieldsNothing ==
    FindCalled =>
        LET last == res.ran[Len(res.ran)]
        IN  FailedInvocation(arg[last]) => res.val = <<>>

\* run() has returned or an exception has left it
RunFinished == pc = "done"

\* C17: on every path out of run() (flag observed, fallback open raising,
\* exception in read, conversion or emission) each capture that run()
\* opened has had release() called on it when run() has finished.
C17_EveryOpenedHandleReleased ==
    RunFinished =>
        \A h \in Handles : opens[h] = "opened" => releases[h] >= 1

\* the conversion of a frame raised while the flag was set; the cleanup
\* released the capture
C17_Witness ==
    /\ RunFinished
    /\ raised
    /\ lastRead = "bad"
    /\ _running
    /\ opens.named = "opened"
    /\ releases.named = 1

\* C18: only the loop's thread operates on the capture: stop() never
\* releases it while run() is in or about to start a read, so no read is
\* made on a capture that another thread has released.
C18_HandleOwnedByLoop == ~raced

\* s is strictly increasing
Increasing(s) == \A i, j \in 1..Len(s) : i < j => s[i] < s[j]

\* C19: each successful read gives one emission of that read's frame, the
\* frames reach the consumer in acquisition order, and no frame queues
\* behind an unconsumed one: at most one frame is pending for the consumer.
C19_NoFrameQueue ==
    /\ emitted <= frames
    /\ Increasing(delivered \o pending)
    /\ Len(pending) <= 1

\* C20: a call loads the configuration once, changes it at most once and
\* persists it atomically: whatever happens in save_config, the file holds
\* the complete previous document or the complete new one.
C20_AtomicPersist ==
    calls > 0 =>
        /\ saves <= 1
        /\ \/ file = before
           \/ best /= None /\ file = FileWithDevice(before, best)

\* the file gives load_config no object: it is missing, unreadable, not
\* JSON, or JSON that is not an object
NoObjectFile(f) == f.kind \in {"missing", "unreadable", "invalid", "list"}

\* C21: when the configuration file is missing, unreadable, not valid JSON
\* or JSON that is not an object, the call returns None, runs no
\* enumeration and writes nothing: the file is not created, replaced,
\* backed up or given a default.
C21_UnloadableConfigUntouched ==
    (calls > 0 /\ NoObjectFile(before)) =>
        /\ ret = None
        /\ escaped = None
        /\ ran = <<>>
        /\ ~chose
        /\ saves = 0
        /\ file = before
        /\ written = None

\* every call so far found the corrupt file and left it
C21_Witness ==
    /\ calls = MaxCalls
    /\ before.kind = "invalid"
    /\ file.kind = "invalid"
    /\ ret = None
    /\ saves = 0

=============================================================================
